---- MODULE Spec2Model ----
(***************************************************************************)
(* Model of the AAudio audio output driver (audio/out/ao_aaudio.c).         *)
(*                                                                         *)
(* The state is the driver's private struct (builder, stream, lib_handle,  *)
(* device_api and the table of bound function pointers), the fields of the *)
(* owning ao the driver reads or writes, and the part of the OS the driver *)
(* talks to (live stream handles, live builders, the loaded library, the   *)
(* state of the stream).  Every driver entry point and both callbacks are  *)
(* one action each.  The calls an entry point makes to the OS are recorded *)
(* in order in `calls`.                                                    *)
(***************************************************************************)
EXTENDS Integers, Sequences, FiniteSets, TLC

VARIABLES
    phase,          \* "new", "ready", "failed", "closed", "crashed"
    builder,        \* p->builder
    stream,         \* p->stream
    lib_handle,     \* p->lib_handle
    device_api,     \* p->device_api
    bound,          \* names of the function pointers of struct priv that are set
    format,         \* ao->format
    samplerate,     \* ao->samplerate
    device_buffer,  \* ao->device_buffer
    reloads,        \* number of ao_request_reload(ao) calls
    osStreams,      \* stream handles open in the OS
    osBuilders,     \* stream builders alive in the OS
    osLib,          \* number of dlopen references to libaaudio.so
    osState,        \* state of the most recently opened stream
    cfg,            \* what the builder was configured with
    lastOp,         \* the entry point that ran last
    again,          \* whether the entry point before lastOp was the same one
    pre,            \* builder, stream, lib_handle, ao->format, reloads on entry to lastOp
    calls,          \* the OS calls lastOp made, in order
    ret,            \* what lastOp returned
    osres,          \* what the OS answered to lastOp's requests
    pull,           \* arguments and answer of lastOp's ao_read_data
    probe,          \* what load_lib_functions returned to init
    inflight        \* the stream a data callback is running on, NULL when none is

vars == <<phase, builder, stream, lib_handle, device_api, bound, format,
          samplerate, device_buffer, reloads, osStreams, osBuilders, osLib,
          osState, cfg, lastOp, again, pre, calls, ret, osres, pull, probe,
          inflight>>

(***************************************************************************)
(* Bounds of the model.                                                    *)
(***************************************************************************)
MaxMissing == 1
MaxHandles == 2
MaxReloads == 1
MaxFrames == 2
MaxWritten == 1

(***************************************************************************)
(* Program constants.                                                      *)
(***************************************************************************)
NULL == 0
AAUDIO_OK == 0
AAudioErrors == {-899}
Results == {AAUDIO_OK} \cup AAudioErrors

(* Device API levels on either side of every level the driver tests for. *)
ApiLevels == {25, 26, 27, 28, 30, 31, 33, 34}
Handles == 1..MaxHandles
LibHandle == 1
BuilderHandle == 1

lib_functions26 ==
    << "AAudio_convertResultToText", "AAudio_convertStreamStateToText",
       "AAudio_createStreamBuilder", "AAudioStreamBuilder_setDeviceId",
       "AAudioStreamBuilder_setSampleRate", "AAudioStreamBuilder_setChannelCount",
       "AAudioStreamBuilder_setSamplesPerFrame", "AAudioStreamBuilder_setFormat",
       "AAudioStreamBuilder_setSharingMode", "AAudioStreamBuilder_setDirection",
       "AAudioStreamBuilder_setBufferCapacityInFrames",
       "AAudioStreamBuilder_setPerformanceMode",
       "AAudioStreamBuilder_setDataCallback",
       "AAudioStreamBuilder_setFramesPerDataCallback",
       "AAudioStreamBuilder_setErrorCallback", "AAudioStreamBuilder_openStream",
       "AAudioStreamBuilder_delete", "AAudioStream_close",
       "AAudioStream_requestStart", "AAudioStream_requestPause",
       "AAudioStream_requestFlush", "AAudioStream_requestStop",
       "AAudioStream_getState", "AAudioStream_waitForStateChange",
       "AAudioStream_read", "AAudioStream_write",
       "AAudioStream_setBufferSizeInFrames", "AAudioStream_getBufferSizeInFrames",
       "AAudioStream_getFramesPerBurst", "AAudioStream_getBufferCapacityInFrames",
       "AAudioStream_getFramesPerDataCallback", "AAudioStream_getXRunCount",
       "AAudioStream_getSampleRate", "AAudioStream_getChannelCount",
       "AAudioStream_getSamplesPerFrame", "AAudioStream_getDeviceId",
       "AAudioStream_getFormat", "AAudioStream_getSharingMode",
       "AAudioStream_getPerformanceMode", "AAudioStream_getDirection",
       "AAudioStream_getFramesWritten", "AAudioStream_getFramesRead",
       "AAudioStream_getTimestamp" >>

lib_functions28 ==
    << "AAudioStreamBuilder_setUsage", "AAudioStreamBuilder_setContentType" >>

lib_functions ==
    << [api_level |-> 26, functions |-> lib_functions26],
       [api_level |-> 28, functions |-> lib_functions28] >>

Range(s) == {s[k] : k \in 1..Len(s)}

AllSymbols == Range(lib_functions26) \cup Range(lib_functions28)

(* The symbols of every tier the device's API level makes mandatory. *)
TierSymbols(api) ==
    UNION {Range(lib_functions[i].functions) :
             i \in {k \in 1..Len(lib_functions) : lib_functions[k].api_level <= api}}

(***************************************************************************)
(* What the dynamic linker can resolve: libMissing are the symbols         *)
(* dlsym(lib_handle, sym) does not find, defHas those of them that         *)
(* dlsym(RTLD_DEFAULT, sym) finds.                                         *)
(***************************************************************************)
RECURSIVE SubsetsUpTo(_)
SubsetsUpTo(k) ==
    IF k = 0 THEN {{}}
    ELSE LET P == SubsetsUpTo(k - 1)
         IN  P \cup {S \cup {s} : S \in P, s \in AllSymbols}

SymbolEnvs ==
    UNION {{[libMissing |-> M, defHas |-> D] : D \in SUBSET M} : M \in SubsetsUpTo(MaxMissing)}

(* Nothing resolves when the library did not load. *)
NoLibrary == [libMissing |-> AllSymbols, defHas |-> {}]

dlsym(env, sym) == sym \notin env.libMissing \/ sym \in env.defHas

(***************************************************************************)
(* load_lib_functions: the tiers are walked in table order, the walk stops *)
(* at the first tier above the device's level, and the first symbol that   *)
(* resolves nowhere ends the probe with failure; the pointers bound up to  *)
(* that symbol stay bound.                                                 *)
(***************************************************************************)
(* The index of the first symbol of fns, from j on, that resolves nowhere;
   Len(fns) + 1 when all resolve. *)
RECURSIVE FirstUnresolved(_, _, _)
FirstUnresolved(env, fns, j) ==
    IF j > Len(fns) THEN j
    ELSE IF ~dlsym(env, fns[j]) THEN j
    ELSE FirstUnresolved(env, fns, j + 1)

(* BindTier that passes over a symbol it cannot resolve. *)
BindTier_skipping(env, fns, acc) ==
    [ok |-> TRUE,
     bound |-> acc \cup {fns[k] : k \in {i \in 1..Len(fns) : dlsym(env, fns[i])}}]

(* The inner loop: the symbols before the first unresolved one are bound. *)
BindTier(env, fns, acc) ==
    LET j == FirstUnresolved(env, fns, 1)
    IN  [ok |-> j > Len(fns), bound |-> acc \cup {fns[k] : k \in 1..(j - 1)}]

RECURSIVE BindTiers(_, _, _, _)
BindTiers(env, api, i, acc) ==
    IF i > Len(lib_functions) THEN [ok |-> TRUE, bound |-> acc]
    ELSE IF api < lib_functions[i].api_level THEN [ok |-> TRUE, bound |-> acc]
    ELSE LET t == BindTier(env, lib_functions[i].functions, acc)
         IN  IF ~t.ok THEN t ELSE BindTiers(env, api, i + 1, t.bound)

load_lib_functions(api, dlopenOk, env) ==
    IF ~dlopenOk
    THEN [ok |-> FALSE, lib_handle |-> NULL, bound |-> {}]
    ELSE LET t == BindTiers(env, api, 1, {})
         IN  [ok |-> t.ok, lib_handle |-> LibHandle, bound |-> t.bound]

(***************************************************************************)
(* Sample formats (audio/format.h) and their classification helpers        *)
(* (audio/format.c).                                                       *)
(***************************************************************************)
InterleavedFormats == {"AF_FORMAT_U8", "AF_FORMAT_S16", "AF_FORMAT_S32",
                       "AF_FORMAT_S64", "AF_FORMAT_FLOAT", "AF_FORMAT_DOUBLE"}
PlanarFormats == {"AF_FORMAT_S32P", "AF_FORMAT_FLOATP"}
SpdifFormats == {"AF_FORMAT_S_AC3"}
Formats == InterleavedFormats \cup PlanarFormats \cup SpdifFormats

af_fmt_from_planar(f) ==
    CASE f = "AF_FORMAT_S32P" -> "AF_FORMAT_S32"
      [] f = "AF_FORMAT_FLOATP" -> "AF_FORMAT_FLOAT"
      [] OTHER -> f

af_fmt_is_spdif(f) == f \in SpdifFormats

af_fmt_is_float(f) == af_fmt_from_planar(f) \in {"AF_FORMAT_FLOAT", "AF_FORMAT_DOUBLE"}

af_fmt_is_int(f) == ~af_fmt_is_spdif(f) /\ ~af_fmt_is_float(f)

af_fmt_to_bytes(f) ==
    CASE af_fmt_from_planar(f) = "AF_FORMAT_U8" -> 1
      [] af_fmt_from_planar(f) = "AF_FORMAT_S16" -> 2
      [] af_fmt_from_planar(f) = "AF_FORMAT_S32" -> 4
      [] af_fmt_from_planar(f) = "AF_FORMAT_S64" -> 8
      [] af_fmt_from_planar(f) = "AF_FORMAT_FLOAT" -> 4
      [] af_fmt_from_planar(f) = "AF_FORMAT_DOUBLE" -> 8
      [] OTHER -> 2

(***************************************************************************)
(* The format selection of init: ao_format is what ao->format holds        *)
(* afterwards, aformat what the builder is given.                          *)
(***************************************************************************)
(* SelectFormat that picks 32-bit output without looking at the API level. *)
SelectFormat_anyApi(api, f) ==
    IF api >= 34 /\ af_fmt_is_spdif(f)
    THEN [ao_format |-> f, aformat |-> "AAUDIO_FORMAT_IEC61937"]
    ELSE IF af_fmt_is_float(f)
    THEN [ao_format |-> "AF_FORMAT_FLOAT", aformat |-> "AAUDIO_FORMAT_PCM_FLOAT"]
    ELSE IF af_fmt_is_int(f)
    THEN IF af_fmt_to_bytes(f) > 2
         THEN [ao_format |-> "AF_FORMAT_S32", aformat |-> "AAUDIO_FORMAT_PCM_I32"]
         ELSE [ao_format |-> "AF_FORMAT_S16", aformat |-> "AAUDIO_FORMAT_PCM_I16"]
    ELSE [ao_format |-> "AF_FORMAT_S16", aformat |-> "AAUDIO_FORMAT_PCM_I16"]

SelectFormat(api, f) ==
    IF api >= 34 /\ af_fmt_is_spdif(f)
    THEN [ao_format |-> f, aformat |-> "AAUDIO_FORMAT_IEC61937"]
    ELSE IF af_fmt_is_float(f)
    THEN [ao_format |-> "AF_FORMAT_FLOAT", aformat |-> "AAUDIO_FORMAT_PCM_FLOAT"]
    ELSE IF af_fmt_is_int(f)
    THEN IF af_fmt_to_bytes(f) > 2 /\ api >= 31
         THEN [ao_format |-> "AF_FORMAT_S32", aformat |-> "AAUDIO_FORMAT_PCM_I32"]
         ELSE [ao_format |-> "AF_FORMAT_S16", aformat |-> "AAUDIO_FORMAT_PCM_I16"]
    ELSE [ao_format |-> "AF_FORMAT_S16", aformat |-> "AAUDIO_FORMAT_PCM_I16"]

Rates == {44100, 48000}

(* Channel counts the OS may give the opened stream, whatever was asked for. *)
GrantedChannels == {2, 11}
Capacities == {192}

NoCfg == [format |-> "unset", rate |-> 0, hints |-> FALSE]

NoPull == [samples |-> 0]

Snapshot == [builder |-> builder, stream |-> stream, lib_handle |-> lib_handle,
             format |-> format, reloads |-> reloads]

Init ==
    /\ phase = "new"
    /\ builder = NULL
    /\ stream = NULL
    /\ lib_handle = NULL
    /\ device_api = 0
    /\ bound = {}
    /\ format \in Formats
    /\ samplerate \in Rates
    /\ device_buffer = 0
    /\ reloads = 0
    /\ osStreams = {}
    /\ osBuilders = {}
    /\ osLib = 0
    /\ osState = "none"
    /\ cfg = NoCfg
    /\ lastOp = "none"
    /\ again = FALSE
    /\ pre = Snapshot
    /\ calls = << >>
    /\ ret = "none"
    /\ osres = [none |-> 0]
    /\ pull = NoPull
    /\ probe = "none"
    /\ inflight = NULL

(* The least handle the OS has not handed out. *)
FreeHandle(used) == CHOOSE h \in Handles \ used : \A g \in Handles \ used : h <= g

History(op) ==
    /\ lastOp' = op
    /\ again' = (lastOp = op)
    /\ pre' = Snapshot
    /\ IF op = "data_callback" THEN TRUE ELSE pull' = NoPull

(* The builder setters init calls between creating the builder and opening. *)
BuilderSetup(api) ==
    << <<"AAudioStreamBuilder_setDeviceId", BuilderHandle>>,
       <<"AAudioStreamBuilder_setDirection", BuilderHandle>>,
       <<"AAudioStreamBuilder_setSharingMode", BuilderHandle>>,
       <<"AAudioStreamBuilder_setFormat", BuilderHandle>>,
       <<"AAudioStreamBuilder_setChannelCount", BuilderHandle>>,
       <<"AAudioStreamBuilder_setSampleRate", BuilderHandle>>,
       <<"AAudioStreamBuilder_setErrorCallback", BuilderHandle>>,
       <<"AAudioStreamBuilder_setBufferCapacityInFrames", BuilderHandle>>,
       <<"AAudioStreamBuilder_setPerformanceMode", BuilderHandle>>,
       <<"AAudioStreamBuilder_setDataCallback", BuilderHandle>> >> \o
    (IF api >= 28
     THEN << <<"AAudioStreamBuilder_setContentType", BuilderHandle>>,
             <<"AAudioStreamBuilder_setUsage", BuilderHandle>> >>
     ELSE << >>)

(***************************************************************************)
(* init, in its four outcomes: the probe fails; the probe succeeds with no *)
(* pointer bound and the first call goes through a null pointer; the       *)
(* builder is not created; the builder is created and the stream opens or  *)
(* does not.                                                               *)
(***************************************************************************)
init ==
    /\ phase = "new"
    /\ History("init")
    /\ UNCHANGED <<samplerate, reloads, inflight>>
    /\ \E api \in ApiLevels, dlopenOk \in BOOLEAN :
       \E env \in (IF dlopenOk THEN SymbolEnvs ELSE {NoLibrary}) :
       \E L \in {load_lib_functions(api, dlopenOk, env)} :
         /\ device_api' = api
         /\ lib_handle' = L.lib_handle
         /\ bound' = L.bound
         /\ probe' = IF L.ok THEN "true" ELSE "false"
         /\ osLib' = IF dlopenOk THEN osLib + 1 ELSE osLib
         /\ IF ~L.ok THEN
               /\ phase' = "failed"
               /\ ret' = "-1"
               /\ calls' = << <<"dlopen", 0>> >>
               /\ osres' = [dlopen |-> IF dlopenOk THEN 0 ELSE -1]
               /\ UNCHANGED <<builder, stream, format, device_buffer, osStreams,
                              osBuilders, osState, cfg>>
            ELSE IF "AAudio_createStreamBuilder" \notin L.bound THEN
               /\ phase' = "crashed"
               /\ ret' = "none"
               /\ calls' = << <<"dlopen", 0>>, <<"AAudio_createStreamBuilder", 0>> >>
               /\ osres' = [dlopen |-> 0]
               /\ UNCHANGED <<builder, stream, format, device_buffer, osStreams,
                              osBuilders, osState, cfg>>
            ELSE \E rc \in Results :
               IF rc < 0 THEN
                  /\ phase' = "failed"
                  /\ ret' = "-1"
                  /\ calls' = << <<"dlopen", 0>>, <<"AAudio_createStreamBuilder", 0>>,
                                 <<"AAudio_convertResultToText", 0>> >>
                  /\ osres' = [dlopen |-> 0, create |-> rc]
                  /\ UNCHANGED <<builder, stream, format, device_buffer, osStreams,
                                 osBuilders, osState, cfg>>
               ELSE \E ro \in Results, cap \in Capacities, granted \in GrantedChannels :
                  LET sel == SelectFormat(api, format)
                      h == FreeHandle(osStreams)
                  IN
                  /\ format' = sel.ao_format
                  /\ cfg' = [format |-> sel.aformat, rate |-> samplerate,
                             hints |-> (api >= 28)]
                  /\ builder' = BuilderHandle
                  /\ osBuilders' = osBuilders \cup {BuilderHandle}
                  /\ IF ro >= 0 THEN
                        /\ stream' = h
                        /\ osStreams' = osStreams \cup {h}
                        /\ osState' = "open"
                        /\ device_buffer' = cap
                        /\ phase' = "ready"
                        /\ ret' = "1"
                        /\ calls' = << <<"dlopen", 0>>, <<"AAudio_createStreamBuilder", 0>> >>
                                    \o BuilderSetup(api) \o
                                    << <<"AAudioStreamBuilder_openStream", BuilderHandle>>,
                                       <<"AAudioStream_getBufferCapacityInFrames", h>> >>
                        /\ osres' = [dlopen |-> 0, create |-> rc, open |-> ro,
                                     capacity |-> cap, granted |-> granted]
                     ELSE
                        /\ stream' = NULL
                        /\ phase' = "failed"
                        /\ ret' = "-1"
                        /\ calls' = << <<"dlopen", 0>>, <<"AAudio_createStreamBuilder", 0>> >>
                                    \o BuilderSetup(api) \o
                                    << <<"AAudioStreamBuilder_openStream", BuilderHandle>>,
                                       <<"AAudio_convertResultToText", 0>> >>
                        /\ osres' = [dlopen |-> 0, create |-> rc, open |-> ro]
                        /\ UNCHANGED <<device_buffer, osStreams, osState>>

(***************************************************************************)
(* The lazy open start shares with init: the OS either hands out a stream  *)
(* handle, which is stored and whose capacity becomes ao->device_buffer,   *)
(* or answers an error and stores no handle.                               *)
(***************************************************************************)
OpenCalls(h) ==
    << <<"AAudioStreamBuilder_openStream", builder>>,
       <<"AAudioStream_getBufferCapacityInFrames", h>> >>

(* requestStart and, when it was accepted, the wait for its confirmation. *)
StartCalls(s, rs, rw) ==
    << <<"AAudioStream_requestStart", s>> >> \o
    (IF rs >= 0 THEN << <<"AAudioStream_waitForStateChange", s>> >> ELSE << >>) \o
    (IF rs < 0 \/ rw < 0 THEN << <<"AAudio_convertResultToText", 0>> >> ELSE << >>)

(* A disconnected stream refuses every request. *)
Answers(st) == IF st = "disconnected" THEN AAudioErrors ELSE Results

(* StartOpens that opens on every start, and one that never opens. *)
StartOpens_always(s) == TRUE

StartOpens_never(s) == FALSE

(* start opens a stream only when none is held. *)
StartOpens(s) == ~(s # NULL)

start ==
    /\ phase = "ready"
    /\ History("start")
    /\ UNCHANGED <<phase, builder, lib_handle, device_api, bound, format, samplerate,
                   reloads, osBuilders, osLib, cfg, probe, inflight>>
    /\ ret' = "void"
    /\ IF StartOpens(stream) THEN
          \E ro \in Results, cap \in Capacities :
             LET h == FreeHandle(osStreams) IN
             IF ro >= 0 THEN
                \E rs \in Results, rw \in Results :
                   /\ stream' = h
                   /\ osStreams' = osStreams \cup {h}
                   /\ device_buffer' = cap
                   /\ osState' = IF rs >= 0 /\ rw >= 0 THEN "started" ELSE "open"
                   /\ calls' = OpenCalls(h) \o StartCalls(h, rs, rw)
                   /\ osres' = IF rs >= 0
                               THEN [open |-> ro, capacity |-> cap, req |-> rs, wait |-> rw]
                               ELSE [open |-> ro, capacity |-> cap, req |-> rs]
             ELSE
                /\ stream' = NULL
                /\ calls' = << <<"AAudioStreamBuilder_openStream", builder>>,
                               <<"AAudio_convertResultToText", 0>> >>
                /\ osres' = [open |-> ro]
                /\ UNCHANGED <<device_buffer, osStreams, osState>>
       ELSE
          \E rs \in Answers(osState), rw \in Answers(osState) :
             /\ osState' = IF rs >= 0 /\ rw >= 0 THEN "started" ELSE osState
             /\ calls' = StartCalls(stream, rs, rw)
             /\ osres' = IF rs >= 0 THEN [req |-> rs, wait |-> rw] ELSE [req |-> rs]
             /\ UNCHANGED <<stream, device_buffer, osStreams>>

(***************************************************************************)
(* set_pause.  With no stream held the request is made on a null handle,   *)
(* which the OS either refuses or dereferences.                            *)
(***************************************************************************)
PauseReturn(rq, rw) == IF rq >= 0 THEN "true" ELSE "false"

set_pause ==
    /\ phase = "ready"
    /\ History("set_pause")
    /\ UNCHANGED <<builder, stream, lib_handle, device_api, bound, format, samplerate,
                   device_buffer, reloads, osStreams, osBuilders, osLib, cfg,
                   probe, inflight>>
    /\ \E paused \in BOOLEAN :
         LET request == IF paused THEN "AAudioStream_requestPause"
                                  ELSE "AAudioStream_requestStart"
         IN
         IF stream = NULL THEN
            \/ /\ phase' = "crashed"
               /\ ret' = "none"
               /\ calls' = << <<request, stream>> >>
               /\ osres' = [paused |-> paused]
               /\ UNCHANGED osState
            \/ \E rq \in AAudioErrors :
               /\ phase' = phase
               /\ ret' = PauseReturn(rq, rq)
               /\ calls' = << <<request, stream>>, <<"AAudio_convertResultToText", 0>> >>
               /\ osres' = [paused |-> paused, req |-> rq]
               /\ UNCHANGED osState
         ELSE
            \E rq \in Answers(osState), rw \in Answers(osState) :
               /\ phase' = phase
               /\ ret' = PauseReturn(rq, rw)
               /\ IF rq >= 0 THEN
                     /\ calls' = << <<request, stream>>,
                                    <<"AAudioStream_waitForStateChange", stream>> >>
                     /\ osres' = [paused |-> paused, req |-> rq, wait |-> rw]
                     /\ osState' = IF rw >= 0
                                   THEN (IF paused THEN "paused" ELSE "started")
                                   ELSE osState
                  ELSE
                     /\ calls' = << <<request, stream>>,
                                    <<"AAudio_convertResultToText", 0>> >>
                     /\ osres' = [paused |-> paused, req |-> rq]
                     /\ UNCHANGED osState

(***************************************************************************)
(* reset and uninit.  Each resource is released only when its pointer is   *)
(* set, and the pointer is cleared after the release.                      *)
(***************************************************************************)
ResetCalls(s) ==
    IF s # NULL THEN << <<"AAudioStream_close", s>> >> ELSE << >>

(* AAudioStream_close that returns while a data callback is still running. *)
CloseQuiesced_noWait(s, running) == TRUE

(* AAudioStream_close(s) blocks until no data callback on s is in flight:
   it returns only in states where none is. *)
CloseQuiesced(s, running) == running # s

reset ==
    /\ phase = "ready"
    /\ stream # NULL => CloseQuiesced(stream, inflight)
    /\ History("reset")
    /\ UNCHANGED <<phase, builder, lib_handle, device_api, bound, format, samplerate,
                   device_buffer, reloads, osBuilders, osLib, cfg,
                   probe, inflight>>
    /\ ret' = "void"
    /\ osres' = [none |-> 0]
    /\ calls' = ResetCalls(stream)
    /\ IF stream # NULL THEN
          /\ osStreams' = osStreams \ {stream}
          /\ osState' = "none"
          /\ stream' = NULL
       ELSE UNCHANGED <<stream, osStreams, osState>>

(* UninitCalls that releases the library first. *)
UninitCalls_libraryFirst(b, s, l) ==
    (IF l # NULL THEN << <<"dlclose", l>> >> ELSE << >>) \o
    (IF b # NULL THEN << <<"AAudioStreamBuilder_delete", b>> >> ELSE << >>) \o
    (IF s # NULL THEN << <<"AAudioStream_close", s>> >> ELSE << >>)

(* UninitCalls that does not test the pointers. *)
UninitCalls_unguarded(b, s, l) ==
    << <<"AAudioStreamBuilder_delete", b>>, <<"AAudioStream_close", s>>,
       <<"dlclose", l>> >>

UninitCalls(b, s, l) ==
    (IF b # NULL THEN << <<"AAudioStreamBuilder_delete", b>> >> ELSE << >>) \o
    (IF s # NULL THEN << <<"AAudioStream_close", s>> >> ELSE << >>) \o
    (IF l # NULL THEN << <<"dlclose", l>> >> ELSE << >>)

uninit ==
    /\ phase \in {"ready", "closed"}
    /\ stream # NULL => CloseQuiesced(stream, inflight)
    /\ History("uninit")
    /\ UNCHANGED <<device_api, bound, format, samplerate, device_buffer, reloads,
                   cfg, probe, inflight>>
    /\ phase' = "closed"
    /\ ret' = "void"
    /\ osres' = [none |-> 0]
    /\ calls' = UninitCalls(builder, stream, lib_handle)
    /\ osBuilders' = IF builder # NULL THEN osBuilders \ {builder} ELSE osBuilders
    /\ builder' = NULL
    /\ osStreams' = IF stream # NULL THEN osStreams \ {stream} ELSE osStreams
    /\ osState' = IF stream # NULL THEN "none" ELSE osState
    /\ stream' = NULL
    /\ osLib' = IF lib_handle # NULL THEN osLib - 1 ELSE osLib
    /\ lib_handle' = NULL

(***************************************************************************)
(* MP_TIME_S_TO_NS(x) / rate in the int64 arithmetic of C: the product     *)
(* x * 10^9 divided by rate, truncated towards zero.  The quotient is      *)
(* computed by long division in three steps of a factor 1000 each, which   *)
(* gives the same integer without forming the product.                     *)
(***************************************************************************)
DivStep(qr, rate) ==
    [q |-> qr.q * 1000 + ((qr.r * 1000) \div rate), r |-> (qr.r * 1000) % rate]

NsOfFramesNat(x, rate) ==
    DivStep(DivStep(DivStep([q |-> x \div rate, r |-> x % rate], rate), rate), rate).q

(* Frames to nanoseconds that divides before it multiplies. *)
NsOfFrames_divideFirst(x, rate) == (x \div rate) * 10^9

NsOfFrames(x, rate) ==
    IF x >= 0 THEN NsOfFramesNat(x, rate) ELSE 0 - NsOfFramesNat(0 - x, rate)

(* end_time without the frames still queued in the device. *)
EndTime_noBacklog(now, nframes, written, presented, rate) ==
    now + NsOfFrames(nframes, rate)

(* end_time as data_callback computes it. *)
EndTime(now, nframes, written, presented, rate) ==
    now + NsOfFrames(nframes, rate) + NsOfFrames(written - presented, rate)

(* CallbackResult that never stops the stream. *)
CallbackResult_neverStops(eof) == "AAUDIO_CALLBACK_RESULT_CONTINUE"

CallbackResult(eof) ==
    IF eof THEN "AAUDIO_CALLBACK_RESULT_STOP" ELSE "AAUDIO_CALLBACK_RESULT_CONTINUE"

Times == {1000000}

(* What the local `presented` can hold when getTimestamp stored nothing. *)
Indeterminate == {0 - 1, MaxWritten + 1}

(***************************************************************************)
(* The audio thread of the OS enters data_callback on the open stream      *)
(* while it is started, one callback at a time.                            *)
(***************************************************************************)
callback_invoked ==
    /\ phase = "ready"
    /\ inflight = NULL
    /\ stream # NULL
    /\ stream \in osStreams
    /\ osState = "started"
    /\ inflight' = stream
    /\ UNCHANGED <<phase, builder, stream, lib_handle, device_api, bound, format,
                   samplerate, device_buffer, reloads, osStreams, osBuilders, osLib,
                   osState, cfg, lastOp, again, pre, calls, ret, osres, pull, probe>>

(***************************************************************************)
(* data_callback, from the moment it was entered to its return.  The       *)
(* result of getTimestamp is not looked at: when the query fails,          *)
(* `presented` holds whatever the stack held.                              *)
(***************************************************************************)
data_callback ==
    /\ phase = "ready"
    /\ inflight # NULL
    /\ inflight' = NULL
    /\ History("data_callback")
    /\ UNCHANGED <<phase, builder, stream, lib_handle, device_api, bound, format,
                   samplerate, device_buffer, reloads, osStreams, osBuilders, osLib,
                   cfg, probe>>
    /\ \E nframes \in 1..MaxFrames, written \in 0..MaxWritten, tsOk \in BOOLEAN,
          now \in Times, eof \in BOOLEAN :
         \E presented \in (IF tsOk THEN 0..written ELSE Indeterminate),
            filled \in {nframes - 1, nframes} :
            /\ calls' = << <<"AAudioStream_getFramesWritten", inflight>>,
                           <<"AAudioStream_getTimestamp", inflight>> >>
            /\ osres' = IF tsOk
                         THEN [nframes |-> nframes, written |-> written,
                               ts |-> AAUDIO_OK, presented |-> presented]
                         ELSE [nframes |-> nframes, written |-> written, ts |-> -895]
            /\ pull' = [samples |-> nframes,
                        out_time_ns |-> EndTime(now, nframes, written, presented, samplerate),
                        eof |-> eof, filled |-> filled, now |-> now]
            /\ ret' = CallbackResult(eof)
            /\ osState' = IF eof /\ osState = "started" THEN "stopped" ELSE osState

(***************************************************************************)
(* error_callback, invoked by the OS when the open stream is disconnected. *)
(***************************************************************************)
(* ErrorCalls that closes the stream from inside the callback. *)
ErrorCalls_closing(s) ==
    << <<"AAudio_convertResultToText", 0>>, <<"AAudioStream_close", s>> >>

ErrorCalls(s) == << <<"AAudio_convertResultToText", 0>> >>

ErrorReloads(n) == n + 1

error_callback ==
    /\ phase = "ready"
    /\ stream # NULL
    /\ stream \in osStreams
    /\ osState # "disconnected"
    /\ reloads < MaxReloads
    /\ History("error_callback")
    /\ UNCHANGED <<phase, builder, stream, lib_handle, device_api, bound, format,
                   samplerate, device_buffer, osStreams, osBuilders, osLib, cfg,
                   probe, inflight>>
    /\ osState' = "disconnected"
    /\ osres' = [error |-> -899]
    /\ ret' = "void"
    /\ calls' = ErrorCalls(stream)
    /\ reloads' = ErrorReloads(reloads)

Next ==
    \/ init
    \/ start
    \/ set_pause
    \/ reset
    \/ uninit
    \/ callback_invoked
    \/ data_callback
    \/ error_callback

Spec == Init /\ [][Next]_vars

(***************************************************************************)
(* Properties.                                                             *)
(***************************************************************************)
CallIndex(name) ==
    IF \E k \in 1..Len(calls) : calls[k][1] = name
    THEN CHOOSE k \in 1..Len(calls) : calls[k][1] = name
    ELSE 0

Called(name) == CallIndex(name) # 0

CalledBefore(a, b) == (Called(a) /\ Called(b)) => CallIndex(a) < CallIndex(b)

\* C1: whenever load_lib_functions reported success, every entry point of
\* every tier whose api_level is at most the device's API level is bound.
LoadBindsEveryTierOrFails ==
    probe = "true" => TierSymbols(device_api) \subseteq bound

LoadBoundBothTiers ==
    /\ lastOp = "init"
    /\ probe = "true"
    /\ device_api >= 28
    /\ bound = AllSymbols

FloatRequests == {"AF_FORMAT_FLOAT", "AF_FORMAT_DOUBLE", "AF_FORMAT_FLOATP"}
WideIntRequests == {"AF_FORMAT_S32", "AF_FORMAT_S64", "AF_FORMAT_S32P"}

\* C2: when init has configured the builder, the stream format and
\* ao->format follow the precedence passthrough (spdif request and API >= 34,
\* ao->format unchanged), float, 32-bit integer (integer request wider than
\* 16 bits and API >= 31), 16-bit integer.
FormatPrecedence ==
    (lastOp = "init" /\ cfg # NoCfg) =>
        IF pre.format \in SpdifFormats /\ device_api >= 34
        THEN cfg.format = "AAUDIO_FORMAT_IEC61937" /\ format = pre.format
        ELSE IF pre.format \in FloatRequests
        THEN cfg.format = "AAUDIO_FORMAT_PCM_FLOAT" /\ format = "AF_FORMAT_FLOAT"
        ELSE IF pre.format \in WideIntRequests /\ device_api >= 31
        THEN cfg.format = "AAUDIO_FORMAT_PCM_I32" /\ format = "AF_FORMAT_S32"
        ELSE cfg.format = "AAUDIO_FORMAT_PCM_I16" /\ format = "AF_FORMAT_S16"

WideIntBelow31Gets16 ==
    /\ lastOp = "init"
    /\ pre.format = "AF_FORMAT_S32"
    /\ device_api < 31
    /\ cfg.format = "AAUDIO_FORMAT_PCM_I16"
    /\ format = "AF_FORMAT_S16"

\* C3: the OS holds at most one open stream of the driver, it is the one
\* p->stream names, and an entry point issues an open only when it was
\* entered with no handle held.
OneLiveHandle ==
    /\ Cardinality(osStreams) <= 1
    /\ stream # NULL => osStreams = {stream}
    /\ stream = NULL => osStreams = {}
    /\ Called("AAudioStreamBuilder_openStream") => pre.stream = NULL

ReopenedAfterReset ==
    /\ lastOp = "start"
    /\ pre.stream = NULL
    /\ Called("AAudioStreamBuilder_openStream")
    /\ stream # NULL
    /\ osStreams = {stream}

\* C4: when the state-change request or the wait for its confirmation
\* answered an error, set_pause returned false.
PauseReportsFailure ==
    (/\ lastOp = "set_pause"
     /\ \/ ("req" \in DOMAIN osres /\ osres.req < 0)
        \/ ("wait" \in DOMAIN osres /\ osres.wait < 0))
    => ret = "false"

\* C5 as stated: uninit closes the stream before it deletes the builder, and
\* deletes the builder before it releases the library.
UninitStreamBuilderLibrary ==
    lastOp = "uninit" =>
        /\ CalledBefore("AAudioStream_close", "AAudioStreamBuilder_delete")
        /\ CalledBefore("AAudioStreamBuilder_delete", "dlclose")

\* C5: uninit deletes the builder before it closes the stream, and closes
\* the stream before it releases the library.
UninitBuilderStreamLibrary ==
    lastOp = "uninit" =>
        /\ CalledBefore("AAudioStreamBuilder_delete", "AAudioStream_close")
        /\ CalledBefore("AAudioStream_close", "dlclose")
        /\ CalledBefore("AAudioStreamBuilder_delete", "dlclose")

UninitReleasedAllThree ==
    /\ lastOp = "uninit"
    /\ Called("AAudioStreamBuilder_delete")
    /\ Called("AAudioStream_close")
    /\ Called("dlclose")

\* C6: a reset that follows a reset, and an uninit that follows an uninit,
\* makes no call to the OS and leaves the driver as the first one left it:
\* no stream handle, and after uninit no builder and no library handle.
TeardownIdempotent ==
    /\ (lastOp = "reset" /\ again) =>
           /\ calls = << >>
           /\ stream = NULL
           /\ builder = pre.builder /\ lib_handle = pre.lib_handle
           /\ phase = "ready"
    /\ (lastOp = "uninit" /\ again) =>
           /\ calls = << >>
           /\ stream = NULL /\ builder = NULL /\ lib_handle = NULL
           /\ pre.stream = NULL /\ pre.builder = NULL /\ pre.lib_handle = NULL
           /\ osStreams = {} /\ osBuilders = {} /\ osLib = 0
           /\ phase = "closed"

UninitTwice ==
    /\ lastOp = "uninit"
    /\ again
    /\ calls = << >>
    /\ device_api >= 26

\* C7: after reset no stream handle is held; a start entered with no handle
\* opens a stream from the retained builder first and requests the start, on
\* the new handle, only after the open; a start entered with a handle
\* requests the start on it without opening.
StartReopensAfterReset ==
    /\ lastOp = "reset" => stream = NULL
    /\ (lastOp = "start" /\ pre.stream = NULL) =>
           /\ Len(calls) >= 1
           /\ calls[1] = <<"AAudioStreamBuilder_openStream", pre.builder>>
           /\ pre.builder # NULL
           /\ osres.open >= 0 =>
                 /\ stream # NULL
                 /\ \E k \in 2..Len(calls) : calls[k] = <<"AAudioStream_requestStart", stream>>
    /\ (lastOp = "start" /\ pre.stream # NULL) =>
           /\ ~Called("AAudioStreamBuilder_openStream")
           /\ calls[1] = <<"AAudioStream_requestStart", pre.stream>>
           /\ stream = pre.stream

StartedAfterReopen ==
    /\ lastOp = "start"
    /\ pre.stream = NULL
    /\ stream # NULL
    /\ osState = "started"
    /\ CallIndex("AAudioStreamBuilder_openStream") = 1
    /\ CallIndex("AAudioStream_requestStart") = 3

\* C8: when the timestamp query failed, the deadline handed to the pull is
\* the current time plus the duration of the requested frames.
TimestampFailureMeansNoBacklog ==
    (lastOp = "data_callback" /\ osres.ts < 0) =>
        pull.out_time_ns = pull.now + NsOfFrames(pull.samples, samplerate)

\* C9: the data callback returns STOP exactly when the pull signalled
\* end-of-stream and CONTINUE otherwise, however many frames were filled.
CallbackStopsExactlyOnEof ==
    lastOp = "data_callback" =>
        /\ pull.eof => ret = "AAUDIO_CALLBACK_RESULT_STOP"
        /\ ~pull.eof => ret = "AAUDIO_CALLBACK_RESULT_CONTINUE"

PartialFillContinues ==
    /\ lastOp = "data_callback"
    /\ ~pull.eof
    /\ pull.filled < pull.samples
    /\ ret = "AAUDIO_CALLBACK_RESULT_CONTINUE"

StreamOperations ==
    {"AAudioStream_close", "AAudioStream_requestStart", "AAudioStream_requestPause",
     "AAudioStream_requestFlush", "AAudioStream_requestStop",
     "AAudioStream_waitForStateChange", "AAudioStreamBuilder_openStream"}

\* C10: an error callback issues exactly one reload request, makes no call
\* on the stream handle and leaves p->stream as it was.
ErrorCallbackOnlyReloads ==
    lastOp = "error_callback" =>
        /\ reloads = pre.reloads + 1
        /\ stream = pre.stream
        /\ stream \in osStreams
        /\ \A k \in 1..Len(calls) :
              calls[k][1] \notin StreamOperations /\ calls[k][2] # stream

ErrorCallbackFired ==
    /\ lastOp = "error_callback"
    /\ reloads = 1
    /\ pre.reloads = 0
    /\ stream # NULL
    /\ osState = "disconnected"

FailedProbeReleasesLibrary ==
    (/\ lastOp = "init"
     /\ ret = "-1"
     /\ probe = "false"
     /\ osres.dlopen >= 0)
    => (lib_handle = NULL /\ osLib = 0)

\* C13: when the life of a driver instance has ended, by a failed init or by
\* uninit, the library its probe opened has been released; the release is
\* made once, by uninit, after the stream was closed and with no stream
\* handle left.
LibraryReleasedOnceAtTeardown ==
    /\ phase \in {"failed", "closed"} => (osLib = 0 /\ lib_handle = NULL)
    /\ osLib \in {0, 1}
    /\ Called("dlclose") =>
          /\ lastOp = "uninit"
          /\ pre.lib_handle # NULL
          /\ CalledBefore("AAudioStream_close", "dlclose")
          /\ stream = NULL /\ osStreams = {}

CountsWithoutLayout == {11}

\* C14: after the stream opened, init asked the stream for the channel count
\* it was given, and when that count has no canonical layout init returned
\* failure and left no stream open.
LegacyPathRejectsUnknownCount ==
    (lastOp = "init" /\ "granted" \in DOMAIN osres) =>
        /\ Called("AAudioStream_getChannelCount")
        /\ osres.granted \in CountsWithoutLayout =>
              (ret = "-1" /\ stream = NULL /\ osStreams = {})

\* C15: at an API level that can take a channel mask, init gives the builder
\* the mask of the table entry identical to the chosen layout instead of a
\* bare channel count.
MaskPathGivesMask ==
    (lastOp = "init" /\ cfg # NoCfg /\ device_api >= 34) =>
        /\ Called("AAudioStreamBuilder_setChannelMask")
        /\ ~Called("AAudioStreamBuilder_setChannelCount")

\* C16: with the time, the sample rate, the frames written and the frames
\* presented of a callback held fixed, a larger frame count gives a strictly
\* later end_time and a smaller one a strictly earlier end_time, under the
\* truncating division of the code.
DeadlineStrictlyIncreases ==
    (lastOp = "data_callback" /\ "presented" \in DOMAIN osres) =>
        \A n \in 1..(MaxFrames + 1) :
           LET other == EndTime(pull.now, n, osres.written, osres.presented, samplerate)
           IN /\ n > pull.samples => other > pull.out_time_ns
              /\ n < pull.samples => other < pull.out_time_ns
              /\ n = pull.samples => other = pull.out_time_ns

OneFrameCallback ==
    /\ lastOp = "data_callback"
    /\ "presented" \in DOMAIN osres
    /\ pull.samples = 1
    /\ samplerate = 44100

\* C17: init returns 1 exactly when the probe succeeded, the builder was
\* created and the stream opened, and -1 in every other case; after a
\* return of 1 the driver holds a live stream and device_buffer is the
\* capacity that stream reported.
InitSucceedsExactlyWhenAllStepsDid ==
    lastOp = "init" =>
        /\ ret \in {"1", "-1"}
        /\ ret = "1" <=> /\ probe = "true"
                         /\ "open" \in DOMAIN osres
                         /\ osres.create >= 0
                         /\ osres.open >= 0
        /\ ret = "1" => /\ stream # NULL
                        /\ stream \in osStreams
                        /\ device_buffer = osres.capacity

(* Truncated x * 10^9 / r for x >= 0, without a product beyond 32 bits. *)
Quot(x, r) == x * (10^9 \div r) + (x * (10^9 % r)) \div r

\* C18: the deadline given to the pull is now + nframes * 10^9 / samplerate
\* + (written - presented) * 10^9 / samplerate with truncating quotients,
\* and the pull is asked for exactly nframes frames.
DeadlineFormula ==
    (lastOp = "data_callback" /\ "presented" \in DOMAIN osres) =>
        /\ pull.samples = osres.nframes
        /\ pull.out_time_ns = pull.now + Quot(osres.nframes, samplerate)
                              + Quot(osres.written - osres.presented, samplerate)

BacklogAddedToDeadline ==
    /\ lastOp = "data_callback"
    /\ "presented" \in DOMAIN osres
    /\ osres.written > osres.presented
    /\ pull.samples = MaxFrames

\* C19: every library function an entry point calls was bound by the probe.
NoCallThroughUnbound ==
    \A k \in 1..Len(calls) :
       calls[k][1] \in AllSymbols => calls[k][1] \in bound

StreamRequests ==
    {"AAudioStream_requestStart", "AAudioStream_requestPause",
     "AAudioStream_waitForStateChange"}

\* C20: no start request, pause request or wait for a state change is made
\* on an absent stream handle.
NoRequestOnAbsentStream ==
    \A k \in 1..Len(calls) :
       calls[k][1] \in StreamRequests => calls[k][2] # NULL

\* C21: when init returns -1 because the builder creation or the stream
\* open was rejected, the driver holds no builder and no stream, and the
\* builder created during that init has been deleted.
FailedOpenLeavesNothingHeld ==
    (lastOp = "init" /\ ret = "-1" /\ "create" \in DOMAIN osres) =>
        /\ builder = NULL
        /\ stream = NULL
        /\ osBuilders = {}
        /\ osStreams = {}

====
